---------------------------- MODULE Spec2Model ----------------------------
(***************************************************************************)
(* derive-into-owned: the IntoOwned and Borrowed derives.                  *)
(*                                                                         *)
(* A derive invocation is a pure function from a parsed declaration        *)
(* (syn::DeriveInput) to a generated impl block (a token stream) or to a   *)
(* panic that aborts the expansion.  These specifications exercise it:     *)
(*   Spec       the two derive entry points on bounded declarations,       *)
(*   SpecField  FieldKind::resolve and the two synthesis routines on       *)
(*              bounded field types,                                       *)
(*   SpecIter   is_iter_field as resolve calls it,                         *)
(*   SpecPath   type_hopefully_is on bounded paths,                        *)
(*   SpecSynth  the two synthesis routines on bounded kinds.               *)
(* Token streams are sequences of token strings; the interpolated groups   *)
(* of the outer quote! calls (field initialisers, match arms, parameter    *)
(* lists) are kept as records so that they can be addressed.               *)
(***************************************************************************)
EXTENDS Naturals, Sequences, FiniteSets

VARIABLES pc, segments, expected, matched, field, kind, tokens, gen, ast, expanded

vars == <<pc, segments, expected, matched, field, kind, tokens, gen, ast, expanded>>

(***************************************************************************)
(* Bounds of the explored inputs.                                          *)
(***************************************************************************)
MaxSegs == 4
MaxDepth == 2
MaxFields == 2
MaxVariants == 2
MaxLifetimes == 2
MaxTyParams == 2
MaxLevels == 8

(***************************************************************************)
(* syn data: generic arguments, path segments, types.                      *)
(***************************************************************************)
NoType == [form |-> "None", segments |-> <<>>]

LifetimeArg == [arg |-> "Lifetime", ty |-> NoType]

BindingArg == [arg |-> "Binding", ty |-> NoType]

TypeArg(t) == [arg |-> "Type", ty |-> t]

NoArguments == [kind |-> "None", args |-> <<>>]

AngleBracketed(a) == [kind |-> "AngleBracketed", args |-> a]

PathSegment(id, arguments) == [ident |-> id, arguments |-> arguments]

\* A path written id1::id2::...::idn<arguments>: only the last segment
\* carries generic arguments.
MkSegments(idents, arguments) ==
    [i \in 1..Len(idents) |->
        PathSegment(idents[i], IF i = Len(idents) THEN arguments ELSE NoArguments)]

TypePath(idents, arguments) == [form |-> "Path", segments |-> MkSegments(idents, arguments)]

\* A type that is no path: a reference such as &'a str.
TypeReference == [form |-> "Reference", segments |-> <<>>]

Last(s) == s[Len(s)]

SeqsUpTo(S, n) == UNION {[1..k -> S] : k \in 0..n}

(***************************************************************************)
(* helpers.rs                                                              *)
(***************************************************************************)
HasArgOfKind(arguments, k) == \E i \in 1..Len(arguments.args) : arguments.args[i].arg = k

\* !args.args.into_iter().any(..): true when the last segment is angle
\* bracketed and carries NO lifetime argument.
has_lifetime_arguments(segs) ==
    IF Len(segs) > 0 /\ Last(segs).arguments.kind = "AngleBracketed"
    THEN ~HasArgOfKind(Last(segs).arguments, "Lifetime")
    ELSE FALSE

\* Same polarity: true when angle bracketed and carrying NO binding.
has_binding_arguments(segs) ==
    IF Len(segs) > 0 /\ Last(segs).arguments.kind = "AngleBracketed"
    THEN ~HasArgOfKind(Last(segs).arguments, "Binding")
    ELSE FALSE

(***************************************************************************)
(* lib.rs: type_hopefully_is                                               *)
(***************************************************************************)
\* A candidate name is written with its :: separators as pieces, as in
\* <<"std", "::", "borrow", "::", "Cow">>; split("::") keeps the pieces
\* between the separators.
RECURSIVE split(_)
split(str) ==
    IF str = <<>> THEN <<>>
    ELSE IF Head(str) = "::" THEN split(Tail(str))
    ELSE <<Head(str)>> \o split(Tail(str))

Idents(segs) == [i \in 1..Len(segs) |-> segs[i].ident]

\* expected[expected.len() - len - 1..]
SliceFrom(s, from) == SubSeq(s, from + 1, Len(s))

\* As type_hopefully_is, were the loop to stop one alignment short.
type_hopefully_is_short_loop(segs, str) ==
    LET exp == split(str)
    IN  IF Len(segs) > Len(exp) THEN FALSE
        ELSE \E len \in 0..(Len(exp) - 2) :
                Idents(segs) = SliceFrom(exp, Len(exp) - len - 1)

type_hopefully_is(segs, str) ==
    LET exp == split(str)
    IN  IF Len(segs) > Len(exp) THEN FALSE
        ELSE \E len \in 0..(Len(exp) - 1) :
                Idents(segs) = SliceFrom(exp, Len(exp) - len - 1)

StdBorrowCow == <<"std", "::", "borrow", "::", "Cow">>

StdOptionOption == <<"std", "::", "option", "::", "Option">>

StdVecVec == <<"std", "::", "vec", "::", "Vec">>

is_cow(segs) == type_hopefully_is(segs, StdBorrowCow)

is_cow_alike(segs) ==
    IF Len(segs) > 0 /\ Last(segs).arguments.kind = "AngleBracketed"
    THEN has_lifetime_arguments(segs)
    ELSE FALSE

(***************************************************************************)
(* lib.rs: FieldKind and the classifier                                    *)
(***************************************************************************)
\* FieldKind; inner is the boxed kind of OptField and IterableField,
\* levels the usize of OptField.
PlainCow == [kind |-> "PlainCow", levels |-> 0, inner |-> "-"]

AssumedCow == [kind |-> "AssumedCow", levels |-> 0, inner |-> "-"]

JustMoved == [kind |-> "JustMoved", levels |-> 0, inner |-> "-"]

OptField(levels, inner) == [kind |-> "OptField", levels |-> levels, inner |-> inner.kind]

IterableField(inner) == [kind |-> "IterableField", levels |-> 0, inner |-> inner.kind]

\* Option::None of Option<FieldKind>
NoKind == [kind |-> "None", levels |-> 0, inner |-> "-"]

TypeArgsOf(arguments) == SelectSeq(arguments.args, LAMBDA a : a.arg = "Type")

RECURSIVE is_opt_cow_loop(_, _)
is_opt_cow_loop(segs, levels) ==
    IF type_hopefully_is(segs, StdOptionOption)
    THEN IF Last(segs).arguments.kind = "AngleBracketed"
         THEN LET types == TypeArgsOf(Last(segs).arguments)
              IN  IF has_lifetime_arguments(segs) \/ has_binding_arguments(segs)
                  THEN NoKind
                  ELSE IF Len(types) # 1
                  THEN NoKind
                  ELSE IF types[1].ty.form = "Path"
                  THEN is_opt_cow_loop(types[1].ty.segments, levels + 1)
                  ELSE NoKind
         ELSE NoKind
    ELSE IF is_cow(segs) THEN OptField(levels, PlainCow)
    ELSE IF is_cow_alike(segs) THEN OptField(levels, AssumedCow)
    ELSE NoKind

is_opt_cow(segs) == is_opt_cow_loop(segs, 0)

RECURSIVE is_iter_field(_)
is_iter_field(segs) ==
    IF type_hopefully_is(segs, StdVecVec)
    THEN IF Last(segs).arguments.kind = "AngleBracketed"
         THEN LET types == TypeArgsOf(Last(segs).arguments)
              IN  IF has_lifetime_arguments(segs) \/ has_binding_arguments(segs)
                  THEN NoKind
                  ELSE IF Len(types) # 1
                  THEN NoKind
                  ELSE IF types[1].ty.form = "Path"
                  THEN is_iter_field(types[1].ty.segments)
                  ELSE NoKind
         ELSE NoKind
    ELSE IF is_cow(segs) THEN IterableField(PlainCow)
    ELSE IF is_cow_alike(segs) THEN IterableField(AssumedCow)
    ELSE NoKind

\* As FieldKind::resolve, were the Option test tried before the Cow tests.
resolve_option_first(ty) ==
    IF ty.form = "Path"
    THEN IF is_opt_cow(ty.segments) # NoKind THEN is_opt_cow(ty.segments)
         ELSE IF is_cow(ty.segments) THEN PlainCow
         ELSE IF is_cow_alike(ty.segments) THEN AssumedCow
         ELSE IF is_iter_field(ty.segments) # NoKind THEN is_iter_field(ty.segments)
         ELSE JustMoved
    ELSE JustMoved

\* FieldKind::resolve on the field's type.
resolve(ty) ==
    IF ty.form = "Path"
    THEN IF is_cow(ty.segments) THEN PlainCow
         ELSE IF is_cow_alike(ty.segments) THEN AssumedCow
         ELSE IF is_opt_cow(ty.segments) # NoKind THEN is_opt_cow(ty.segments)
         ELSE IF is_iter_field(ty.segments) # NoKind THEN is_iter_field(ty.segments)
         ELSE JustMoved
    ELSE JustMoved

(***************************************************************************)
(* lib.rs: the two synthesis routines                                      *)
(***************************************************************************)
\* The boxed inner kind of OptField / IterableField.
Unbox(inner) ==
    IF inner = "PlainCow" THEN PlainCow
    ELSE IF inner = "AssumedCow" THEN AssumedCow
    ELSE JustMoved

\* What a synthesis routine leaves when levels - 1 underflows the usize
\* (a panic in a debug build, a loop of 2^64 - 1 rounds otherwise): no code.
SubtractOverflow == <<"attempt to subtract with overflow">>

\* As the loop of move_or_clone_field, were it to run once more (0..levels).
RECURSIVE map_rounds_one_more(_, _, _)
map_rounds_one_more(n, next, toks) ==
    LET wrapped == next \o <<".", "map", "(", "|">> \o next \o <<"|">> \o toks \o <<")">>
    IN  IF n = 0 THEN wrapped ELSE map_rounds_one_more(n - 1, next, wrapped)

\* for _ in 0..n { tokens = quote! { #next.map(|#next| #tokens) } }
RECURSIVE map_rounds(_, _, _)
map_rounds(n, next, toks) ==
    IF n = 0 THEN toks
    ELSE map_rounds(n - 1, next,
            next \o <<".", "map", "(", "|">> \o next \o <<"|">> \o toks \o <<")">>)

\* for _ in 0..n { tokens = quote! { #next.as_ref().map(|#next| #tokens) } }
RECURSIVE as_ref_map_rounds(_, _, _)
as_ref_map_rounds(n, next, toks) ==
    IF n = 0 THEN toks
    ELSE as_ref_map_rounds(n - 1, next,
            next \o <<".", "as_ref", "(", ")", ".", "map", "(", "|">> \o next \o <<"|">>
                 \o toks \o <<")">>)

CowOwned == <<"::", "std", "::", "borrow", "::", "Cow", "::", "Owned">>

CowBorrowed == <<"::", "std", "::", "borrow", "::", "Cow", "::", "Borrowed">>

RECURSIVE move_or_clone_field(_, _)
move_or_clone_field(self, var) ==
    IF self.kind = "PlainCow"
    THEN CowOwned \o <<"(">> \o var \o <<".", "into_owned", "(", ")", ")">>
    ELSE IF self.kind = "AssumedCow"
    THEN var \o <<".", "into_owned", "(", ")">>
    ELSE IF self.kind = "OptField"
    THEN LET next == <<"val">>
             inner == move_or_clone_field(Unbox(self.inner), next)
         IN  IF self.levels = 0 THEN SubtractOverflow
             ELSE var \o <<".", "map", "(", "|">> \o next \o <<"|">>
                      \o map_rounds(self.levels - 1, next, inner) \o <<")">>
    ELSE IF self.kind = "IterableField"
    THEN LET next == <<"x">>
             inner == move_or_clone_field(Unbox(self.inner), next)
         IN  var \o <<".", "into_iter", "(", ")", ".", "map", "(", "|", "x", "|">>
                 \o inner \o <<")", ".", "collect", "(", ")">>
    ELSE var

RECURSIVE borrow_or_clone(_, _)
borrow_or_clone(self, var) ==
    IF self.kind = "PlainCow"
    THEN CowBorrowed \o <<"(">> \o var \o <<".", "as_ref", "(", ")", ")">>
    ELSE IF self.kind = "AssumedCow"
    THEN var \o <<".", "borrowed", "(", ")">>
    ELSE IF self.kind = "OptField"
    THEN LET next == <<"val">>
             inner == borrow_or_clone(Unbox(self.inner), next)
         IN  IF self.levels = 0 THEN SubtractOverflow
             ELSE var \o <<".", "as_ref", "(", ")", ".", "map", "(", "|">> \o next \o <<"|">>
                      \o as_ref_map_rounds(self.levels - 1, next, inner) \o <<")">>
    ELSE IF self.kind = "IterableField"
    THEN LET next == <<"x">>
             inner == borrow_or_clone(Unbox(self.inner), next)
         IN  var \o <<".", "iter", "(", ")", ".", "map", "(", "|", "x", "|">>
                 \o inner \o <<")", ".", "collect", "(", ")">>
    ELSE var \o <<".", "clone", "(", ")">>

(***************************************************************************)
(* lib.rs: the declaration visitors                                        *)
(*                                                                         *)
(* A body (the fields of a struct or of an enum variant) has one of three  *)
(* shapes.  The visitors keep one working arm, the one for named fields;   *)
(* the Tuple and Unit arms are commented out in the source and what is     *)
(* left for those shapes is todo!().                                       *)
(***************************************************************************)
\* Option::None of a field's ident.
NoIdent == "<none>"

TodoPanic == "not yet implemented"

UnwrapPanic == "called Option::unwrap() on a None value"

Visited(inits) == [ok |-> TRUE, panic |-> "", inits |-> inits]

VisitPanicked(msg) == [ok |-> FALSE, panic |-> msg, inits |-> <<>>]

HasUnnamedField(body) == \E i \in 1..Len(body.fields) : body.fields[i].ident = NoIdent

\* quote! { #ident: #code } for every field, with #code the conversion of
\* self.#ident.
IntoOwnedGen_visit_struct(data) ==
    IF data.style = "Named"
    THEN IF HasUnnamedField(data) THEN VisitPanicked(UnwrapPanic)
         ELSE Visited([i \in 1..Len(data.fields) |->
                 [ident |-> data.fields[i].ident,
                  code |-> move_or_clone_field(resolve(data.fields[i].ty),
                                               <<"self", ".", data.fields[i].ident>>)]])
    ELSE VisitPanicked(TodoPanic)

BorrowedGen_visit_struct(data) ==
    IF data.style = "Named"
    THEN IF HasUnnamedField(data) THEN VisitPanicked(UnwrapPanic)
         ELSE Visited([i \in 1..Len(data.fields) |->
                 [ident |-> data.fields[i].ident,
                  code |-> borrow_or_clone(resolve(data.fields[i].ty),
                                           <<"self", ".", data.fields[i].ident>>)]])
    ELSE VisitPanicked(TodoPanic)

MatchArm(ident, binds, by_ref, inits) ==
    [ok |-> TRUE, panic |-> "", path |-> ident, binds |-> binds, by_ref |-> by_ref,
     inits |-> inits]

ArmPanicked(msg) ==
    [ok |-> FALSE, panic |-> msg, path |-> <<>>, binds |-> <<>>, by_ref |-> FALSE,
     inits |-> <<>>]

\* As IntoOwnedGen::visit_enum_data with the commented-out Unit arm
\* (quote! { #ident => #ident }) put back.
visit_enum_data_with_unit_arm(ident, data) ==
    IF data.style = "Named"
    THEN MatchArm(ident,
            [i \in 1..Len(data.fields) |-> data.fields[i].ident],
            FALSE,
            [i \in 1..Len(data.fields) |->
               [ident |-> data.fields[i].ident,
                code |-> move_or_clone_field(resolve(data.fields[i].ty),
                                             <<data.fields[i].ident>>)]])
    ELSE IF data.style = "Unit" THEN MatchArm(ident, <<>>, FALSE, <<>>)
    ELSE ArmPanicked(TodoPanic)

\* quote! { #ident { #(#idents),* } => #ident { #(#cloned),* } }
IntoOwnedGen_visit_enum_data(ident, data) ==
    IF data.style = "Named"
    THEN IF HasUnnamedField(data) THEN ArmPanicked(UnwrapPanic)
         ELSE MatchArm(ident,
                 [i \in 1..Len(data.fields) |-> data.fields[i].ident],
                 FALSE,
                 [i \in 1..Len(data.fields) |->
                    [ident |-> data.fields[i].ident,
                     code |-> move_or_clone_field(resolve(data.fields[i].ty),
                                                  <<data.fields[i].ident>>)]])
    ELSE ArmPanicked(TodoPanic)

\* As BorrowedGen::visit_enum_data, were the pattern to bind by value.
visit_enum_data_without_ref(ident, data) ==
    IF data.style = "Named"
    THEN MatchArm(ident,
            [i \in 1..Len(data.fields) |-> data.fields[i].ident],
            FALSE,
            [i \in 1..Len(data.fields) |->
               [ident |-> data.fields[i].ident,
                code |-> borrow_or_clone(resolve(data.fields[i].ty),
                                         <<data.fields[i].ident>>)]])
    ELSE ArmPanicked(TodoPanic)

\* quote! { #ident { #(ref #idents),* } => #ident { #(#cloned),* } }
BorrowedGen_visit_enum_data(ident, data) ==
    IF data.style = "Named"
    THEN IF HasUnnamedField(data) THEN ArmPanicked(UnwrapPanic)
         ELSE MatchArm(ident,
                 [i \in 1..Len(data.fields) |-> data.fields[i].ident],
                 TRUE,
                 [i \in 1..Len(data.fields) |->
                    [ident |-> data.fields[i].ident,
                     code |-> borrow_or_clone(resolve(data.fields[i].ty),
                                              <<data.fields[i].ident>>)]])
    ELSE ArmPanicked(TodoPanic)

(***************************************************************************)
(* lib.rs: the generic parameter lists                                     *)
(***************************************************************************)
\* quote! { #ty }: a type parameter with its bounds.
TyParamTokens(ty) == IF ty.bounds = <<>> THEN <<ty.ident>> ELSE <<ty.ident, ":">> \o ty.bounds

quote_borrowed_params(input) ==
    [i \in 1..Len(input.generics.lifetimes) |-> <<input.generics.lifetimes[i]>>]
    \o [i \in 1..Len(input.generics.ty_params) |-> TyParamTokens(input.generics.ty_params[i])]

quote_type_params(input) ==
    [i \in 1..Len(input.generics.lifetimes) |-> <<input.generics.lifetimes[i]>>]
    \o [i \in 1..Len(input.generics.ty_params) |-> <<input.generics.ty_params[i].ident>>]

\* As BorrowedGen::quote_rhs_params, were each lifetime given a name of its
\* own instead of the shared one.
quote_rhs_params_per_lifetime(input) ==
    [i \in 1..Len(input.generics.lifetimes) |->
        IF i = 1 THEN <<"'__borrowedgen">> ELSE <<input.generics.lifetimes[i]>>]
    \o [i \in 1..Len(input.generics.ty_params) |-> <<input.generics.ty_params[i].ident>>]

\* The default method of BodyGenerator, used by IntoOwnedGen.
quote_rhs_params(input) ==
    [i \in 1..Len(input.generics.lifetimes) |-> <<"'static">>]
    \o [i \in 1..Len(input.generics.ty_params) |-> <<input.generics.ty_params[i].ident>>]

BorrowedGen_quote_rhs_params(input) ==
    [i \in 1..Len(input.generics.lifetimes) |-> <<"'__borrowedgen">>]
    \o [i \in 1..Len(input.generics.ty_params) |-> <<input.generics.ty_params[i].ident>>]

(***************************************************************************)
(* lib.rs: combine_impl and impl_with_generator                            *)
(***************************************************************************)
NoBody == [form |-> "None", inits |-> <<>>, arms |-> <<>>]

StructBody(inits) == [form |-> "Struct", inits |-> inits, arms |-> <<>>]

MatchBody(arms) == [form |-> "Match", inits |-> <<>>, arms |-> arms]

\* The expansion panicked: the compiler reports the panic and no tokens.
Aborted(msg) ==
    [ok |-> FALSE, panic |-> msg, borrowed |-> <<>>, name |-> "", params |-> <<>>,
     method |-> "", method_generics |-> <<>>, receiver |-> <<>>, owned |-> <<>>,
     body |-> NoBody]

IntoOwnedGen_combine_impl(borrowed, name, params, owned, body) ==
    [ok |-> TRUE, panic |-> "", borrowed |-> borrowed, name |-> name, params |-> params,
     method |-> "into_owned", method_generics |-> <<>>, receiver |-> <<"self">>,
     owned |-> owned, body |-> body]

BorrowedGen_combine_impl(borrowed, name, params, owned, body) ==
    [ok |-> TRUE, panic |-> "", borrowed |-> borrowed, name |-> name, params |-> params,
     method |-> "borrowed", method_generics |-> <<"'__borrowedgen">>,
     receiver |-> <<"&", "'__borrowedgen", "self">>,
     owned |-> owned, body |-> body]

visit_struct(g, data) ==
    IF g = "IntoOwnedGen" THEN IntoOwnedGen_visit_struct(data)
    ELSE BorrowedGen_visit_struct(data)

visit_enum_data(g, ident, data) ==
    IF g = "IntoOwnedGen" THEN IntoOwnedGen_visit_enum_data(ident, data)
    ELSE BorrowedGen_visit_enum_data(ident, data)

combine_impl(g, borrowed, name, params, owned, body) ==
    IF g = "IntoOwnedGen" THEN IntoOwnedGen_combine_impl(borrowed, name, params, owned, body)
    ELSE BorrowedGen_combine_impl(borrowed, name, params, owned, body)

impl_with_generator(input, g) ==
    LET name == input.ident
        borrowed == quote_borrowed_params(input)
        params == quote_type_params(input)
        owned == IF g = "IntoOwnedGen" THEN quote_rhs_params(input)
                 ELSE BorrowedGen_quote_rhs_params(input)
    IN  IF input.data.kind = "Struct"
        THEN LET inner == visit_struct(g, input.data.fields)
             IN  IF inner.ok
                 THEN combine_impl(g, borrowed, name, params, owned, StructBody(inner.inits))
                 ELSE Aborted(inner.panic)
        ELSE IF input.data.kind = "Enum"
        THEN LET variants == input.data.variants
                 cases == [i \in 1..Len(variants) |->
                             visit_enum_data(g, <<name, "::", variants[i].ident>>,
                                             variants[i].fields)]
                 failed == {i \in 1..Len(variants) : ~cases[i].ok}
             IN  IF failed = {}
                 THEN combine_impl(g, borrowed, name, params, owned, MatchBody(cases))
                 ELSE Aborted(cases[CHOOSE i \in failed : \A j \in failed : i <= j].panic)
        ELSE Aborted(TodoPanic)

(***************************************************************************)
(* The inputs explored.                                                    *)
(***************************************************************************)
Idle == "idle"

NoTokens == [var |-> <<>>, code |-> <<>>]

NoInput ==
    [ident |-> "", generics |-> [lifetimes |-> <<>>, ty_params |-> <<>>],
     data |-> [kind |-> "None", fields |-> [style |-> "Unit", fields |-> <<>>],
               variants |-> <<>>]]

\* --- paths for type_hopefully_is ---
SegmentNames == {"std", "borrow", "Cow", "CowOther", "option", "Option"}

Candidates == {StdBorrowCow, StdOptionOption}

LastArguments == {NoArguments, AngleBracketed(<<LifetimeArg>>)}

PathInputs ==
    {MkSegments(ids, a) : ids \in SeqsUpTo(SegmentNames, MaxSegs), a \in LastArguments}

\* --- field types for FieldKind::resolve ---
TypeIdents == {<<"Cow">>, <<"Option">>, <<"Vec">>, <<"Foo">>}

\* <'a, T, B = ..> with each part present or not
Arguments(lifetime, types, binding) ==
    AngleBracketed((IF lifetime THEN <<LifetimeArg>> ELSE <<>>)
                   \o [i \in 1..Len(types) |-> TypeArg(types[i])]
                   \o (IF binding THEN <<BindingArg>> ELSE <<>>))

LeafTypes ==
    {TypeReference}
    \cup {TypePath(p, NoArguments) : p \in TypeIdents}
    \cup {TypePath(p, Arguments(l, <<>>, b)) : p \in TypeIdents, l \in BOOLEAN, b \in BOOLEAN}

RECURSIVE TypesUpTo(_)
TypesUpTo(d) ==
    IF d = 0 THEN LeafTypes
    ELSE LET lower == TypesUpTo(d - 1)
         IN  LeafTypes
             \cup {TypePath(p, Arguments(l, <<t>>, b)) :
                     p \in TypeIdents, l \in BOOLEAN, b \in BOOLEAN, t \in lower}

FieldInputs == TypesUpTo(MaxDepth)

AccessExprs == {<<"self", ".", "content">>, <<"content">>}

\* --- declarations for the derives ---
StrTy == TypePath(<<"str">>, NoArguments)

U32Ty == TypePath(<<"u32">>, NoArguments)

\* Cow<'a, str>
CowTy == TypePath(<<"Cow">>, AngleBracketed(<<LifetimeArg, TypeArg(StrTy)>>))

StringTy == TypePath(<<"String">>, NoArguments)

\* Vec<u32>
VecU32Ty == TypePath(<<"Vec">>, AngleBracketed(<<TypeArg(U32Ty)>>))

DeclFieldTypes == {CowTy, StringTy, VecU32Ty}

VariantFieldTypes == {CowTy, StringTy}

FieldIdents == <<"content", "string", "number", "extra", "more">>

VariantIdents == <<"First", "Second", "Third", "Fourth">>

LifetimeNames == <<"'a", "'b", "'c", "'d">>

TyParams ==
    << [ident |-> "T", bounds |-> <<"Clone">>], [ident |-> "U", bounds |-> <<>>],
       [ident |-> "V", bounds |-> <<>>], [ident |-> "W", bounds |-> <<>>] >>

Fields(style, tys) ==
    [style |-> style,
     fields |-> [i \in 1..Len(tys) |->
                    [ident |-> IF style = "Named" THEN FieldIdents[i] ELSE NoIdent,
                     ty |-> tys[i]]]]

UnsupportedBodies ==
    {Fields("Unnamed", tys) : tys \in SeqsUpTo({StringTy}, MaxFields)}
    \cup {Fields("Unit", <<>>)}

\* The bodies of structs.
Bodies ==
    {Fields("Named", tys) : tys \in SeqsUpTo(DeclFieldTypes, MaxFields)}
    \cup UnsupportedBodies

\* The bodies of enum variants.
VariantBodies ==
    {Fields("Named", tys) : tys \in SeqsUpTo(VariantFieldTypes, MaxFields)}
    \cup UnsupportedBodies

DataStruct(body) == [kind |-> "Struct", fields |-> body, variants |-> <<>>]

DataEnum(bodies) ==
    [kind |-> "Enum", fields |-> Fields("Unit", <<>>),
     variants |-> [i \in 1..Len(bodies) |-> [ident |-> VariantIdents[i], fields |-> bodies[i]]]]

DataUnion == [kind |-> "Union", fields |-> Fields("Unit", <<>>), variants |-> <<>>]

Datas ==
    {DataStruct(b) : b \in Bodies}
    \cup {DataEnum(bs) : bs \in SeqsUpTo(VariantBodies, MaxVariants)}
    \cup {DataUnion}

\* The bodies every generics list is tried with.
SmallDatas ==
    {DataStruct(Fields("Named", <<CowTy>>)), DataStruct(Fields("Named", <<>>)),
     DataStruct(Fields("Unnamed", <<StringTy>>)), DataUnion,
     DataEnum(<<Fields("Named", <<CowTy>>)>>), DataEnum(<<Fields("Unit", <<>>)>>)}

Generics(n, m) ==
    [lifetimes |-> SubSeq(LifetimeNames, 1, n), ty_params |-> SubSeq(TyParams, 1, m)]

DeriveInput(generics, data) == [ident |-> "Parsed", generics |-> generics, data |-> data]

\* Every body with the generics of tests/01-parse.rs (<'a>), and every
\* generics list with the small bodies.
DeriveInputs ==
    {DeriveInput(Generics(1, 0), d) : d \in Datas}
    \cup {DeriveInput(Generics(n, m), d) :
            n \in 0..MaxLifetimes, m \in 0..MaxTyParams, d \in SmallDatas}

(***************************************************************************)
(* Spec: the two derive entry points.                                      *)
(***************************************************************************)
Init ==
    /\ pc = Idle
    /\ segments = <<>> /\ expected = <<>> /\ matched = FALSE
    /\ field = NoType /\ kind = NoKind /\ tokens = NoTokens
    /\ gen = "-" /\ ast = NoInput /\ expanded = Aborted("")

\* As into_owned, were the owning transform to reject a declaration with
\* more than one type parameter.
into_owned_one_type_param(input) ==
    /\ pc = Idle
    /\ pc' = "expanded"
    /\ gen' = "IntoOwnedGen"
    /\ ast' = input
    /\ expanded' = IF Len(input.generics.ty_params) > 1
                   THEN Aborted("too many type parameters")
                   ELSE impl_with_generator(input, "IntoOwnedGen")
    /\ UNCHANGED <<segments, expected, matched, field, kind, tokens>>

\* #[proc_macro_derive(IntoOwned)]
into_owned(input) ==
    /\ pc = Idle
    /\ pc' = "expanded"
    /\ gen' = "IntoOwnedGen"
    /\ ast' = input
    /\ expanded' = impl_with_generator(input, "IntoOwnedGen")
    /\ UNCHANGED <<segments, expected, matched, field, kind, tokens>>

\* #[proc_macro_derive(Borrowed)]
borrowed(input) ==
    /\ pc = Idle
    /\ pc' = "expanded"
    /\ gen' = "BorrowedGen"
    /\ ast' = input
    /\ expanded' = impl_with_generator(input, "BorrowedGen")
    /\ UNCHANGED <<segments, expected, matched, field, kind, tokens>>

DeriveIntoOwned == pc = Idle /\ \E input \in DeriveInputs : into_owned(input)

DeriveBorrowed == pc = Idle /\ \E input \in DeriveInputs : borrowed(input)

Next == DeriveIntoOwned \/ DeriveBorrowed

Spec == Init /\ [][Next]_vars

(***************************************************************************)
(* SpecField: classification and synthesis of one field.                   *)
(***************************************************************************)
InitField ==
    /\ pc = "field"
    /\ field \in FieldInputs
    /\ kind = NoKind /\ tokens = NoTokens
    /\ segments = <<>> /\ expected = <<>> /\ matched = FALSE
    /\ gen = "-" /\ ast = NoInput /\ expanded = Aborted("")

Resolve ==
    /\ pc = "field"
    /\ pc' = "resolved"
    /\ kind' = resolve(field)
    /\ UNCHANGED <<segments, expected, matched, field, tokens, gen, ast, expanded>>

MoveOrCloneField ==
    /\ pc = "resolved"
    /\ \E var \in AccessExprs :
          tokens' = [var |-> var, code |-> move_or_clone_field(kind, var)]
    /\ pc' = "synthesized"
    /\ gen' = "IntoOwnedGen"
    /\ UNCHANGED <<segments, expected, matched, field, kind, ast, expanded>>

BorrowOrClone ==
    /\ pc = "resolved"
    /\ \E var \in AccessExprs :
          tokens' = [var |-> var, code |-> borrow_or_clone(kind, var)]
    /\ pc' = "synthesized"
    /\ gen' = "BorrowedGen"
    /\ UNCHANGED <<segments, expected, matched, field, kind, ast, expanded>>

NextField == Resolve \/ MoveOrCloneField \/ BorrowOrClone

SpecField == InitField /\ [][NextField]_vars

(***************************************************************************)
(* SpecIter: is_iter_field as FieldKind::resolve calls it, next to the     *)
(* whole of resolve.                                                       *)
(***************************************************************************)
\* resolve reaches is_iter_field when the type is a path and is_cow,
\* is_cow_alike and is_opt_cow have all declined it.
IsIterField ==
    /\ pc = "field"
    /\ field.form = "Path"
    /\ ~is_cow(field.segments)
    /\ ~is_cow_alike(field.segments)
    /\ is_opt_cow(field.segments) = NoKind
    /\ pc' = "iterated"
    /\ kind' = is_iter_field(field.segments)
    /\ UNCHANGED <<segments, expected, matched, field, tokens, gen, ast, expanded>>

NextIter == IsIterField \/ Resolve

SpecIter == InitField /\ [][NextIter]_vars

(***************************************************************************)
(* SpecPath: type_hopefully_is on one path and one candidate name.         *)
(***************************************************************************)
InitPath ==
    /\ pc = "path"
    /\ segments \in PathInputs
    /\ expected \in Candidates
    /\ matched = FALSE
    /\ field = NoType /\ kind = NoKind /\ tokens = NoTokens
    /\ gen = "-" /\ ast = NoInput /\ expanded = Aborted("")

TypeHopefullyIs ==
    /\ pc = "path"
    /\ pc' = "matched"
    /\ matched' = type_hopefully_is(segments, expected)
    /\ UNCHANGED <<segments, expected, field, kind, tokens, gen, ast, expanded>>

NextPath == TypeHopefullyIs

SpecPath == InitPath /\ [][NextPath]_vars

(***************************************************************************)
(* SpecSynth: the two synthesis routines on one FieldKind.                 *)
(***************************************************************************)
\* The kinds the classifier can build: the three plain ones, OptField of
\* any positive depth and IterableField, each over PlainCow or AssumedCow.
KindInputs ==
    {PlainCow, AssumedCow, JustMoved}
    \cup {OptField(d, inner) : d \in 1..MaxLevels, inner \in {PlainCow, AssumedCow}}
    \cup {IterableField(inner) : inner \in {PlainCow, AssumedCow}}

InitSynth ==
    /\ pc = "resolved"
    /\ kind \in KindInputs
    /\ field = NoType /\ tokens = NoTokens
    /\ segments = <<>> /\ expected = <<>> /\ matched = FALSE
    /\ gen = "-" /\ ast = NoInput /\ expanded = Aborted("")

NextSynth == MoveOrCloneField \/ BorrowOrClone

SpecSynth == InitSynth /\ [][NextSynth]_vars

(***************************************************************************)
(* The terms of the claims.                                                *)
(***************************************************************************)
\* The part of a candidate name between its separators.
CandidateNames(str) == SelectSeq(str, LAMBDA piece : piece # "::")

IsSuffixOf(p, c) ==
    /\ Len(p) > 0
    /\ Len(p) <= Len(c)
    /\ p = SubSeq(c, Len(c) - Len(p) + 1, Len(c))

\* The type is written Cow, borrow::Cow or std::borrow::Cow.
NamedCow(ty) ==
    ty.form = "Path" /\ IsSuffixOf(Idents(ty.segments), <<"std", "borrow", "Cow">>)

\* The last segment of the path has a lifetime among its arguments.
CarriesLifetime(ty) ==
    /\ ty.form = "Path"
    /\ Len(ty.segments) > 0
    /\ \E i \in 1..Len(Last(ty.segments).arguments.args) :
          Last(ty.segments).arguments.args[i].arg = "Lifetime"

\* The type is written name<T>, with the one type argument and no other.
IsGenericOver(ty, name) ==
    /\ ty.form = "Path"
    /\ Idents(ty.segments) = <<name>>
    /\ Last(ty.segments).arguments.kind = "AngleBracketed"
    /\ Len(Last(ty.segments).arguments.args) = 1
    /\ Last(ty.segments).arguments.args[1].arg = "Type"

TypeArgument(ty) == Last(ty.segments).arguments.args[1].ty

\* d layers of Option around the Cow wrapper.
RECURSIVE IsNestedOptionCow(_, _)
IsNestedOptionCow(ty, d) ==
    IF d = 0 THEN NamedCow(ty)
    ELSE IsGenericOver(ty, "Option") /\ IsNestedOptionCow(TypeArgument(ty), d - 1)

\* A wrapper in the documented sense: Cow, a Cow-alike (a type with a
\* lifetime specifier), or an Option or Vec of one.
RECURSIVE IsWrapper(_)
IsWrapper(ty) ==
    \/ NamedCow(ty)
    \/ CarriesLifetime(ty)
    \/ /\ IsGenericOver(ty, "Option") \/ IsGenericOver(ty, "Vec")
       /\ IsWrapper(TypeArgument(ty))

IsNamedStruct(input) == input.data.kind = "Struct" /\ input.data.fields.style = "Named"

StructFields(input) == input.data.fields.fields

IsStructLikeEnum(input) ==
    /\ input.data.kind = "Enum"
    /\ \A i \in 1..Len(input.data.variants) : input.data.variants[i].fields.style = "Named"

IsUnsupportedShape(input) ==
    \/ input.data.kind = "Union"
    \/ input.data.kind = "Struct" /\ input.data.fields.style = "Unnamed"
    \/ /\ input.data.kind = "Enum"
       /\ \E i \in 1..Len(input.data.variants) :
             input.data.variants[i].fields.style \in {"Unnamed", "Unit"}

\* The bodies the visitors are handed for a declaration.
VisitedBodies(input) ==
    IF input.data.kind = "Struct" THEN {input.data.fields}
    ELSE IF input.data.kind = "Enum"
    THEN {input.data.variants[i].fields : i \in 1..Len(input.data.variants)}
    ELSE {}

\* The number of tokens of the stream that are t.
CountToken(toks, t) == Cardinality({i \in 1..Len(toks) : toks[i] = t})

\* The conversion of val for an inner kind, in either mode.
InnerConversion(inner, g) ==
    IF inner = "PlainCow"
    THEN IF g = "IntoOwnedGen"
         THEN <<"::", "std", "::", "borrow", "::", "Cow", "::", "Owned", "(",
                "val", ".", "into_owned", "(", ")", ")">>
         ELSE <<"::", "std", "::", "borrow", "::", "Cow", "::", "Borrowed", "(",
                "val", ".", "as_ref", "(", ")", ")">>
    ELSE IF g = "IntoOwnedGen"
         THEN <<"val", ".", "into_owned", "(", ")">>
         ELSE <<"val", ".", "borrowed", "(", ")">>

\* d nested optional-map calls read from the outside in: the receiver,
\* as_ref() in Borrowed mode, then map over val of either the next call on
\* val or, innermost, the inner conversion.
RECURSIVE NestedMaps(_, _, _, _)
NestedMaps(d, receiver, inner, g) ==
    receiver
    \o (IF g = "BorrowedGen" THEN <<".", "as_ref", "(", ")">> ELSE <<>>)
    \o <<".", "map", "(", "|", "val", "|">>
    \o (IF d = 1 THEN InnerConversion(inner, g) ELSE NestedMaps(d - 1, <<"val">>, inner, g))
    \o <<")">>

\* The type is written Vec<..> with exactly one type among its arguments.
IsVecOfOne(ty) ==
    /\ ty.form = "Path"
    /\ Idents(ty.segments) = <<"Vec">>
    /\ Last(ty.segments).arguments.kind = "AngleBracketed"
    /\ Cardinality({i \in 1..Len(Last(ty.segments).arguments.args) :
                       Last(ty.segments).arguments.args[i].arg = "Type"}) = 1

VecElement(ty) ==
    LET args == Last(ty.segments).arguments.args
    IN  args[CHOOSE i \in 1..Len(args) : args[i].arg = "Type"].ty

\* n layers of Vec around a Cow or a Cow-alike.
RECURSIVE IsNestedVecCow(_, _)
IsNestedVecCow(ty, n) ==
    IF n = 0 THEN NamedCow(ty) \/ CarriesLifetime(ty)
    ELSE IsVecOfOne(ty) /\ IsNestedVecCow(VecElement(ty), n - 1)

Expanded == pc = "expanded"

Resolved == pc \in {"resolved", "synthesized"}

(***************************************************************************)
(* The claims.                                                             *)
(***************************************************************************)
\* C1: for a struct with named fields whose only wrapper fields are Cow-typed,
\* IntoOwned generates into_owned(self) constructing the struct with one
\* initialiser per declared field, same names and order: a Cow-typed field f as
\* ::std::borrow::Cow::Owned(self.f.into_owned()), every other field as self.f.
C1_IntoOwnedStructFields ==
    (/\ Expanded /\ gen = "IntoOwnedGen" /\ IsNamedStruct(ast)
     /\ \A i \in 1..Len(StructFields(ast)) :
           NamedCow(StructFields(ast)[i].ty) \/ ~IsWrapper(StructFields(ast)[i].ty))
    => /\ expanded.ok
       /\ expanded.method = "into_owned" /\ expanded.receiver = <<"self">>
       /\ expanded.body.form = "Struct"
       /\ Len(expanded.body.inits) = Len(StructFields(ast))
       /\ \A i \in 1..Len(StructFields(ast)) :
             LET f == StructFields(ast)[i]
             IN  /\ expanded.body.inits[i].ident = f.ident
                 /\ expanded.body.inits[i].code =
                       IF NamedCow(f.ty)
                       THEN <<"::", "std", "::", "borrow", "::", "Cow", "::", "Owned", "(",
                              "self", ".", f.ident, ".", "into_owned", "(", ")", ")">>
                       ELSE <<"self", ".", f.ident>>

\* C2: for a struct with named fields whose only wrapper fields are Cow-typed,
\* Borrowed generates borrowed(&self) constructing the struct with one
\* initialiser per declared field: a Cow-typed field f as
\* ::std::borrow::Cow::Borrowed(self.f.as_ref()), every field that is neither
\* Cow nor Cow-alike as self.f.clone().
C2_BorrowedStructFields ==
    (/\ Expanded /\ gen = "BorrowedGen" /\ IsNamedStruct(ast)
     /\ \A i \in 1..Len(StructFields(ast)) :
           NamedCow(StructFields(ast)[i].ty) \/ ~IsWrapper(StructFields(ast)[i].ty))
    => /\ expanded.ok
       /\ expanded.method = "borrowed"
       /\ expanded.receiver = <<"&", "'__borrowedgen", "self">>
       /\ expanded.body.form = "Struct"
       /\ Len(expanded.body.inits) = Len(StructFields(ast))
       /\ \A i \in 1..Len(StructFields(ast)) :
             LET f == StructFields(ast)[i]
             IN  /\ expanded.body.inits[i].ident = f.ident
                 /\ expanded.body.inits[i].code =
                       IF NamedCow(f.ty)
                       THEN <<"::", "std", "::", "borrow", "::", "Cow", "::", "Borrowed", "(",
                              "self", ".", f.ident, ".", "as_ref", "(", ")", ")">>
                       ELSE <<"self", ".", f.ident, ".", "clone", "(", ")">>

\* C3: the target parameter list of a generated impl has N + M entries for a
\* declaration with N lifetimes and M type parameters: the first N are 'static
\* (IntoOwned) or the one shared '__borrowedgen (Borrowed), then the M type
\* parameter names in declared order.
C3_TargetParams ==
    (Expanded /\ expanded.ok)
    => LET n == Len(ast.generics.lifetimes)
           m == Len(ast.generics.ty_params)
       IN  /\ Len(expanded.owned) = n + m
           /\ \A i \in 1..n :
                 expanded.owned[i] =
                    IF gen = "IntoOwnedGen" THEN <<"'static">> ELSE <<"'__borrowedgen">>
           /\ \A j \in 1..m : expanded.owned[n + j] = <<ast.generics.ty_params[j].ident>>

C3_Witness ==
    /\ Expanded /\ expanded.ok /\ gen = "BorrowedGen"
    /\ Len(ast.generics.lifetimes) = 2 /\ Len(ast.generics.ty_params) = 2
    /\ expanded.owned = <<<<"'__borrowedgen">>, <<"'__borrowedgen">>, <<"T">>, <<"U">>>>

\* C4: a path that is not Cow by name and whose last segment carries a lifetime
\* argument resolves to AssumedCow, and a path whose last segment carries no
\* lifetime argument does not resolve to AssumedCow.
C4_LifetimeMakesAssumedCow ==
    (Resolved /\ field.form = "Path")
    => /\ (~NamedCow(field) /\ CarriesLifetime(field)) => kind = AssumedCow
       /\ ~CarriesLifetime(field) => kind # AssumedCow

\* C5: d >= 1 layers of Option around the Cow wrapper resolve to
\* OptField(d, PlainCow).
C5_NestedOptionCow ==
    Resolved
    => \A d \in 1..(MaxDepth + 1) :
          IsNestedOptionCow(field, d) => kind = OptField(d, PlainCow)

\* C6: Vec of the Cow wrapper resolves to IterableField(PlainCow), and its
\* synthesized expression is one element-wise transform over the field,
\* into_iter() (IntoOwned) or iter() (Borrowed), converting each element as a
\* PlainCow and collecting.
C6_VecOfCow ==
    (/\ Resolved /\ IsGenericOver(field, "Vec") /\ NamedCow(TypeArgument(field)))
    => /\ kind = IterableField(PlainCow)
       /\ (pc = "synthesized" /\ gen = "IntoOwnedGen")
          => tokens.code =
                tokens.var
                \o <<".", "into_iter", "(", ")", ".", "map", "(", "|", "x", "|",
                     "::", "std", "::", "borrow", "::", "Cow", "::", "Owned", "(",
                     "x", ".", "into_owned", "(", ")", ")",
                     ")", ".", "collect", "(", ")">>
       /\ (pc = "synthesized" /\ gen = "BorrowedGen")
          => tokens.code =
                tokens.var
                \o <<".", "iter", "(", ")", ".", "map", "(", "|", "x", "|",
                     "::", "std", "::", "borrow", "::", "Cow", "::", "Borrowed", "(",
                     "x", ".", "as_ref", "(", ")", ")",
                     ")", ".", "collect", "(", ")">>

C8_EnumArms ==
    (Expanded /\ IsStructLikeEnum(ast))
    => /\ expanded.ok
       /\ expanded.body.form = "Match"
       /\ Len(expanded.body.arms) = Len(ast.data.variants)
       /\ \A i \in 1..Len(ast.data.variants) :
             LET v == ast.data.variants[i]
                 arm == expanded.body.arms[i]
             IN  /\ arm.path = <<ast.ident, "::", v.ident>>
                 /\ arm.binds = [j \in 1..Len(v.fields.fields) |-> v.fields.fields[j].ident]
                 /\ arm.by_ref = (gen = "BorrowedGen")
                 /\ Len(arm.inits) = Len(v.fields.fields)
                 /\ \A j \in 1..Len(v.fields.fields) :
                       LET f == v.fields.fields[j]
                       IN  /\ arm.inits[j].ident = f.ident
                           /\ arm.inits[j].code =
                                 IF gen = "BorrowedGen"
                                 THEN borrow_or_clone(resolve(f.ty), <<f.ident>>)
                                 ELSE move_or_clone_field(resolve(f.ty), <<f.ident>>)

C8_Witness ==
    /\ Expanded /\ IsStructLikeEnum(ast) /\ gen = "BorrowedGen" /\ expanded.ok
    /\ Len(expanded.body.arms) = 2
    /\ expanded.body.arms[1].binds = <<"content">>
    /\ expanded.body.arms[2].binds = <<"content", "string">>
    /\ expanded.body.arms[2].by_ref
    /\ expanded.body.arms[2].inits[1].code =
          <<"::", "std", "::", "borrow", "::", "Cow", "::", "Borrowed", "(",
            "content", ".", "as_ref", "(", ")", ")">>

C10_MatchesTrailingNames ==
    pc = "matched"
    => matched = IsSuffixOf(Idents(segments), CandidateNames(expected))

C10_Witness ==
    /\ pc = "matched" /\ matched
    /\ expected = StdBorrowCow
    /\ Idents(segments) = <<"std", "borrow", "Cow">>
    /\ Last(segments).arguments.kind = "AngleBracketed"

\* C11: for OptField(d, inner) with d >= 1 and inner PlainCow or AssumedCow,
\* each synthesis routine emits exactly d nested map calls, the outermost on
\* the field access expression, every inner one on val, the innermost closure
\* body the inner conversion of val; in Borrowed mode each map call is
\* preceded by as_ref(), in IntoOwned mode none is.
C11_OptFieldMapChain ==
    (pc = "synthesized" /\ kind.kind = "OptField" /\ kind.levels >= 1
     /\ kind.inner \in {"PlainCow", "AssumedCow"})
    => /\ tokens.code = NestedMaps(kind.levels, tokens.var, kind.inner, gen)
       /\ CountToken(tokens.code, "map") = kind.levels
       /\ CountToken(tokens.code, "|") = 2 * kind.levels
       /\ gen = "IntoOwnedGen" => CountToken(tokens.code, "as_ref") = 0

C11_Witness ==
    /\ pc = "synthesized" /\ gen = "BorrowedGen"
    /\ kind = OptField(2, PlainCow)
    /\ tokens.code =
          <<"self", ".", "content", ".", "as_ref", "(", ")", ".", "map", "(", "|", "val", "|",
            "val", ".", "as_ref", "(", ")", ".", "map", "(", "|", "val", "|",
            "::", "std", "::", "borrow", "::", "Cow", "::", "Borrowed", "(",
            "val", ".", "as_ref", "(", ")", ")", ")", ")">>

\* C12: for every field type both synthesis routines, applied to the kind
\* FieldKind::resolve returns, complete without failure: resolve never returns
\* OptField with depth 0 (levels - 1 never underflows), and the inner kind of
\* every OptField or IterableField it returns is PlainCow or AssumedCow.
C12_SynthesisNeverFails ==
    Resolved
    => /\ kind.kind = "OptField" => kind.levels >= 1
       /\ kind.kind \in {"OptField", "IterableField"}
          => kind.inner \in {"PlainCow", "AssumedCow"}
       /\ pc = "synthesized" => tokens.code # SubtractOverflow

C12_Witness ==
    /\ pc = "synthesized" /\ gen = "IntoOwnedGen"
    /\ kind = OptField(2, PlainCow)
    /\ Idents(field.segments) = <<"Option">>
    /\ CountToken(tokens.code, "map") = 2

\* C13: sequence classification unwraps exactly one Vec layer: is_iter_field
\* returns IterableField(inner) only for a Vec path with exactly one type
\* argument that is itself directly PlainCow or AssumedCow (the inner kind),
\* and two or more Vec layers around a Cow or Cow-alike are not classified
\* IterableField but fall through to JustMoved.
C13_OneVecLayer ==
    /\ (pc = "iterated" /\ kind.kind = "IterableField")
       => /\ IsVecOfOne(field)
          /\ resolve(VecElement(field)).kind \in {"PlainCow", "AssumedCow"}
          /\ resolve(VecElement(field)).kind = kind.inner
    /\ (pc = "resolved" /\ \E n \in 2..(MaxDepth + 1) : IsNestedVecCow(field, n))
       => kind = JustMoved

=============================================================================
